---- MODULE Spec2Model ----
(***************************************************************************)
(* Trip booking REST API (express + sqlite3).                              *)
(*                                                                         *)
(* The store is the five tables created by initializeDatabase; every route *)
(* issues exactly one SQL statement on the shared handle and answers from  *)
(* the statement's callback (err, row/rows, this.lastID, this.changes).    *)
(* SQLite runs the statements of one handle one at a time and the callback *)
(* reads only the results of its own statement, so a request is one step   *)
(* and requests in flight together are the interleavings of these steps.   *)
(***************************************************************************)
EXTENDS Integers, Sequences, FiniteSets, TLC

VARIABLES db, seq, resp, nops, lastCreated, assigned, deleted, boot

vars == <<db, seq, resp, nops, lastCreated, assigned, deleted, boot>>

\* Number of statements that change the store followed in one behaviour.
MaxOps == 2

Tables == {"destination", "trip", "customer", "meeting", "booking"}

---------------------------------------------------------------------------
\* JSON / SQLite values.  t is the storage class; a number carries n, a
\* text carries s.  Undef is a field that is absent from the request body.

Text(str) == [t |-> "text", s |-> str, n |-> 0]
Num(k) == [t |-> "num", s |-> "", n |-> k]
Null == [t |-> "null", s |-> "", n |-> 0]
Undef == [t |-> "undef", s |-> "", n |-> 0]

\* Decimal text of the small numbers the request bodies use.
Decimal == <<"1", "2", "3", "4", "5", "6", "7", "8", "9">>

NumStr(k) == IF k = 0 THEN "0" ELSE Decimal[k]

IsNumeric(str) == str = "0" \/ \E k \in DOMAIN Decimal : Decimal[k] = str

StrNum(str) == IF str = "0" THEN 0 ELSE CHOOSE k \in DOMAIN Decimal : Decimal[k] = str

\* const { f } = req.body : a field missing from the body is undefined.
Field(body, f) == IF f \in DOMAIN body THEN body[f] ELSE Undef

\* sqlite3 binds an undefined parameter as NULL.
Bind(v) == IF v.t = "undef" THEN Null ELSE v

\* Column affinity TEXT: a number is stored as its decimal text.
TextAff(v) == IF v.t = "num" THEN Text(NumStr(v.n)) ELSE v

\* Column affinity INTEGER / REAL: a well-formed numeric text is stored as
\* the number, any other text is stored as it is.
NumAff(v) == IF v.t = "text" /\ IsNumeric(v.s) THEN Num(StrNum(v.s)) ELSE v

\* JavaScript truthiness of a body value (!phone, !password).
Falsy(v) ==
  \/ v.t \in {"undef", "null"}
  \/ v.t = "text" /\ v.s = ""
  \/ v.t = "num" /\ v.n = 0

---------------------------------------------------------------------------
\* Schema (CREATE TABLE statements of initializeDatabase).

\* Columns other than idx, in declaration order.
Columns(r) ==
  CASE r = "destination" -> <<"zone">>
    [] r = "trip" -> <<"name", "country", "destinationid", "coverimage", "detail", "price", "duration">>
    [] r = "customer" -> <<"fullname", "phone", "email", "image", "password">>
    [] r = "meeting" -> <<"detail", "meetingdatetime", "latitude", "longitude">>
    [] r = "booking" -> <<"customerid", "bookdatetime", "tripid", "meetingid">>

ColSet(cols) == {cols[i] : i \in DOMAIN cols}

\* Columns declared INTEGER or REAL.
NumericCols(r) ==
  CASE r = "destination" -> {}
    [] r = "trip" -> {"destinationid", "price", "duration"}
    [] r = "customer" -> {}
    [] r = "meeting" -> {"latitude", "longitude"}
    [] r = "booking" -> {"customerid", "tripid", "meetingid"}

\* Columns declared NOT NULL.
NotNullCols(r) ==
  CASE r = "destination" -> {"zone"}
    [] r = "trip" -> {"name", "country"}
    [] r = "customer" -> {"fullname", "phone", "password"}
    [] r = "meeting" -> {}
    [] r = "booking" -> {}

\* Columns declared UNIQUE.
UniqueCols(r) == IF r = "customer" THEN {"phone"} ELSE {}

\* The value a column stores for a bound parameter.
Store(r, c, v) == IF c \in NumericCols(r) THEN NumAff(Bind(v)) ELSE TextAff(Bind(v))

---------------------------------------------------------------------------
\* SQL statements on the shared handle.  A statement yields
\* [err, msg, rows, lastID, changes, db, seq]; fail is a failure of the
\* store itself (for instance a closed handle), which changes nothing.

Max(S) == CHOOSE m \in S : \A k \in S : k <= m

\* The rowids a table holds.
Ids(r) == {x.idx : x \in db[r]}

Failed(msg) == [err |-> TRUE, msg |-> msg, rows |-> {}, lastID |-> 0, changes |-> 0, db |-> db, seq |-> seq]

\* Variant: a rowid chosen without AUTOINCREMENT, one more than the largest
\* rowid now in the table.
NextIdWithoutSequence(r) == Max({0} \cup Ids(r)) + 1

\* idx INTEGER PRIMARY KEY AUTOINCREMENT: one more than the largest rowid
\* the table has ever held (sqlite_sequence).
NextId(r) == Max({seq[r]} \cup Ids(r)) + 1

\* Variant: the statement leaves out the first column of the table.
WrittenRowShortList(r, id, params, old) ==
  [c \in ColSet(Columns(r)) \cup {"idx"} |->
     IF c = "idx" THEN id
     ELSE IF c \in DOMAIN params /\ c # Columns(r)[1] THEN Store(r, c, params[c])
     ELSE old[c]]

\* Variant: a parameter without a value leaves the column as it is
\* (SET c = COALESCE(?, c)).
WrittenRowMerge(r, id, params, old) ==
  [c \in ColSet(Columns(r)) \cup {"idx"} |->
     IF c = "idx" THEN id
     ELSE IF c \in DOMAIN params /\ Store(r, c, params[c]) # Null THEN Store(r, c, params[c])
     ELSE old[c]]

\* The row an INSERT or UPDATE writes: named columns take the stored form of
\* their parameter, the others keep the value given by old.
WrittenRow(r, id, params, old) ==
  [c \in ColSet(Columns(r)) \cup {"idx"} |->
     IF c = "idx" THEN id
     ELSE IF c \in DOMAIN params THEN Store(r, c, params[c])
     ELSE old[c]]

NullRow(r) == [c \in ColSet(Columns(r)) |-> Null]

\* NOT NULL and UNIQUE constraints of a row written at id.
ViolatesNotNull(r, row) == \E c \in NotNullCols(r) : row[c] = Null

\* Variant: phone declared without UNIQUE.
ViolatesUniqueUndeclared(r, id, row) == FALSE

ViolatesUnique(r, id, row) ==
  \E c \in UniqueCols(r) : \E x \in db[r] : x.idx # id /\ x[c] = row[c]

\* FOREIGN KEY (column) REFERENCES table (idx)
ForeignKeys(r) ==
  CASE r = "trip" -> {<<"destinationid", "destination">>}
    [] r = "booking" -> {<<"customerid", "customer">>, <<"tripid", "trip">>, <<"meetingid", "meeting">>}
    [] OTHER -> {}

\* Variant: the handle is opened with PRAGMA foreign_keys = ON.
ForeignKeysOn == TRUE

\* SQLite checks foreign keys only after PRAGMA foreign_keys = ON, which the
\* server never issues on its handle.
ForeignKeysEnforced == FALSE

\* A foreign key of the row that is not NULL and names no row of its table.
ViolatesForeignKey(r, row) ==
  /\ ForeignKeysEnforced
  /\ \E fk \in ForeignKeys(r) :
       /\ row[fk[1]] # Null
       /\ \A x \in db[fk[2]] : row[fk[1]] # Num(x.idx)

\* INSERT INTO r (cols) VALUES (?, ...)
Insert(r, params, fail) ==
  LET id == NextId(r)
      row == WrittenRow(r, id, params, NullRow(r))
  IN IF fail THEN Failed("SQLITE_MISUSE: Database is closed")
     ELSE IF ViolatesNotNull(r, row) THEN Failed("SQLITE_CONSTRAINT: NOT NULL constraint failed")
     ELSE IF ViolatesUnique(r, id, row) THEN Failed("SQLITE_CONSTRAINT: UNIQUE constraint failed")
     ELSE IF ViolatesForeignKey(r, row) THEN Failed("SQLITE_CONSTRAINT: FOREIGN KEY constraint failed")
     ELSE [err |-> FALSE, msg |-> "", rows |-> {}, lastID |-> id, changes |-> 1,
           db |-> [db EXCEPT ![r] = @ \cup {row}],
           seq |-> [seq EXCEPT ![r] = id]]

\* UPDATE r SET cols = ? WHERE idx = ?
Update(r, id, params, fail) ==
  LET hit == {x \in db[r] : x.idx = id}
      new == {WrittenRow(r, id, params, x) : x \in hit}
  IN IF fail THEN Failed("SQLITE_MISUSE: Database is closed")
     ELSE IF \E row \in new : ViolatesNotNull(r, row)
     THEN Failed("SQLITE_CONSTRAINT: NOT NULL constraint failed")
     ELSE IF \E row \in new : ViolatesUnique(r, id, row)
     THEN Failed("SQLITE_CONSTRAINT: UNIQUE constraint failed")
     ELSE IF \E row \in new : ViolatesForeignKey(r, row)
     THEN Failed("SQLITE_CONSTRAINT: FOREIGN KEY constraint failed")
     ELSE [err |-> FALSE, msg |-> "", rows |-> {}, lastID |-> 0, changes |-> Cardinality(hit),
           db |-> [db EXCEPT ![r] = (@ \ hit) \cup new], seq |-> seq]

\* Variant: foreign keys declared ON DELETE CASCADE and enforced.
RemovedCascade(r, id, t) ==
  IF t = r THEN {x \in db[t] : x.idx = id}
  ELSE IF t = "trip" /\ r = "destination" THEN {x \in db[t] : x.destinationid = Num(id)}
  ELSE IF t = "booking" /\ r = "customer" THEN {x \in db[t] : x.customerid = Num(id)}
  ELSE IF t = "booking" /\ r = "trip" THEN {x \in db[t] : x.tripid = Num(id)}
  ELSE IF t = "booking" /\ r = "meeting" THEN {x \in db[t] : x.meetingid = Num(id)}
  ELSE {}

\* The rows a DELETE FROM r WHERE idx = ? removes from table t.
Removed(r, id, t) == IF t = r THEN {x \in db[t] : x.idx = id} ELSE {}

\* DELETE FROM r WHERE idx = ?
Delete(r, id, fail) ==
  IF fail THEN Failed("SQLITE_MISUSE: Database is closed")
  ELSE [err |-> FALSE, msg |-> "", rows |-> {}, lastID |-> 0,
        changes |-> Cardinality(Removed(r, id, r)),
        db |-> [t \in Tables |-> db[t] \ Removed(r, id, t)],
        seq |-> seq]

Selected(rows, fail) ==
  IF fail THEN Failed("SQLITE_MISUSE: Database is closed")
  ELSE [err |-> FALSE, msg |-> "", rows |-> rows, lastID |-> 0, changes |-> 0, db |-> db, seq |-> seq]

\* SELECT * FROM r
SelectAll(r, fail) == Selected(db[r], fail)

\* Variant: the WHERE clause is missing.
SelectByIdUnfiltered(r, id, fail) == Selected(db[r], fail)

\* SELECT * FROM r WHERE idx = ?
SelectById(r, id, fail) == Selected({x \in db[r] : x.idx = id}, fail)

\* Variant: the join compares the two primary keys.
JoinOnIdx(t, d) == Num(t.idx) = Num(d.idx)

\* t.destinationid = d.idx
JoinOn(t, d) == t.destinationid = Num(d.idx)

\* SELECT t.idx, t.name, ..., d.zone AS destination_zone
TripColumns(t, d) ==
  [idx |-> t.idx, name |-> t.name, country |-> t.country, coverimage |-> t.coverimage,
   detail |-> t.detail, price |-> t.price, duration |-> t.duration, destination_zone |-> d.zone]

\* FROM trip AS t JOIN destination AS d ON t.destinationid = d.idx
TripJoin ==
  {TripColumns(p[1], p[2]) : p \in {q \in db["trip"] \X db["destination"] : JoinOn(q[1], q[2])}}

SelectTrips(fail) == Selected(TripJoin, fail)

SelectTripById(id, fail) == Selected({row \in TripJoin : row.idx = id}, fail)

\* Variant: the lookup compares the phone only.
CredentialsPhoneOnly(row, phone, password) == row.phone = TextAff(Bind(phone))

\* SELECT * FROM customer WHERE phone = ? AND password = ?
\* (a parameter compared with a TEXT column takes TEXT affinity)
Credentials(row, phone, password) ==
  row.phone = TextAff(Bind(phone)) /\ row.password = TextAff(Bind(password))

SelectLogin(phone, password, fail) ==
  Selected({x \in db["customer"] : Credentials(x, phone, password)}, fail)

---------------------------------------------------------------------------
\* Responses.  The body handed to res.json is absent (undefined or null), an
\* object or an array of rows.

NoData == [k |-> "none"]
Obj(o) == [k |-> "obj", o |-> o]
Arr(rows) == [k |-> "arr", rows |-> rows]

\* Variant: an empty array counts as no data.
TruthyNonEmpty(data) == data.k # "none" /\ (data.k = "arr" => data.rows # {})

Truthy(data) == data.k # "none"

\* this.changes; the default of handleResponse's parameter is null.
NoChanges == -1

\* Variant: the not-found test runs before the error test.
handleResponseNotFoundFirst(err, msg, data, notFoundStatusCode, notFoundMessage, changes) ==
  IF ~Truthy(data) /\ ~(changes > 0)
  THEN [status |-> notFoundStatusCode, data |-> Obj([error |-> notFoundMessage])]
  ELSE IF err THEN [status |-> 500, data |-> Obj([error |-> msg])]
  ELSE [status |-> 200, data |-> data]

\* function handleResponse(res, err, data, notFoundStatusCode = 404,
\*                         notFoundMessage = "Not found", changes = null)
handleResponse(err, msg, data, notFoundStatusCode, notFoundMessage, changes) ==
  IF err THEN [status |-> 500, data |-> Obj([error |-> msg])]
  ELSE IF ~Truthy(data) /\ ~(changes > 0)
  THEN [status |-> notFoundStatusCode, data |-> Obj([error |-> notFoundMessage])]
  ELSE [status |-> 200, data |-> data]

\* row of a db.get callback: the first row, or undefined.
RowOf(q) == IF q.rows = {} THEN NoData ELSE Obj(CHOOSE x \in q.rows : TRUE)

\* Variant: the copy is returned without the delete.
SanitizedCopyOnly(row) == row

\* const sanitizedRow = { ...row }; delete sanitizedRow.password;
Sanitized(row) == [f \in DOMAIN row \ {"password"} |-> row[f]]

\* The parameter list [f1, f2, ...] a handler destructures from req.body.
Params(body, fields) == [f \in fields |-> Field(body, f)]

---------------------------------------------------------------------------
\* Request bodies and parameters the clients send.

EmptyBody == [f \in {} |-> Undef]

DestinationBodies ==
  { [zone |-> Text("Oceania")],
    [zone |-> Num(7)],
    EmptyBody }

TripBodies ==
  { [name |-> Text("Kyoto Days"), country |-> Text("Japan"), destinationid |-> Num(1),
     price |-> Num(900), duration |-> Num(4)],
    [name |-> Text("Lost Week"), country |-> Text("Nowhere"), destinationid |-> Num(9),
     detail |-> Null, duration |-> Text("4")],
    [country |-> Text("Japan"), destinationid |-> Num(1)] }

CustomerBodies ==
  { [fullname |-> Text("Jane Roe"), phone |-> Text("+1987654321"), email |-> Text("jane@example.com"),
     password |-> Text("secret")],
    [fullname |-> Text("Johnny"), phone |-> Text("+1234567890"), password |-> Text("other")],
    [fullname |-> Text("Seven"), phone |-> Num(7), image |-> Text("seven.jpg"), password |-> Num(5)] }

MeetingBodies ==
  { [detail |-> Text("Hotel lobby"), meetingdatetime |-> Text("2024-02-01 09:00:00"),
     latitude |-> Num(1), longitude |-> Num(2)],
    [detail |-> Text("Pier"), latitude |-> Text("north")] }

BookingBodies ==
  { [customerid |-> Num(1), bookdatetime |-> Text("2024-01-10 08:00:00"), tripid |-> Num(1),
     meetingid |-> Num(1)],
    [customerid |-> Num(9), tripid |-> Num(9)] }

LoginBodies ==
  { [phone |-> ph, password |-> pw] :
      ph \in {Text("+1234567890"), Num(7), Text("")},
      pw \in {Text("password123"), Num(5), Num(0)} }
  \cup { [phone |-> Text("+1234567890")], [password |-> Text("password123")] }

\* req.params.id: the ids in use, the ids used before and one never assigned.
RequestIds(r) == 1 .. (Max({seq[r]} \cup Ids(r)) + 1)

---------------------------------------------------------------------------
\* The store after initializeDatabase and insertSampleData.

SeedDestinations ==
  { [idx |-> 1, zone |-> Text("Asia")],
    [idx |-> 2, zone |-> Text("Europe")],
    [idx |-> 3, zone |-> Text("America")] }

SeedTrips ==
  { [idx |-> 1, name |-> Text("Tokyo Adventure"), country |-> Text("Japan"), destinationid |-> Num(1),
     coverimage |-> Text("tokyo.jpg"), detail |-> Text("Explore the vibrant city of Tokyo"),
     price |-> Num(1500), duration |-> Num(7)],
    [idx |-> 2, name |-> Text("Paris Romance"), country |-> Text("France"), destinationid |-> Num(2),
     coverimage |-> Text("paris.jpg"), detail |-> Text("Romantic getaway in the City of Light"),
     price |-> Num(2000), duration |-> Num(5)] }

SeedCustomers ==
  { [idx |-> 1, fullname |-> Text("John Doe"), phone |-> Text("+1234567890"),
     email |-> Text("john@example.com"), image |-> Text("john.jpg"), password |-> Text("password123")] }

\* latitude 35.6762 and longitude 139.6503, in units of 1/10000 degree.
SeedMeetings ==
  { [idx |-> 1, detail |-> Text("Airport pickup"), meetingdatetime |-> Text("2024-01-15 10:00:00"),
     latitude |-> Num(356762), longitude |-> Num(1396503)] }

SeedDb ==
  [t \in Tables |->
     CASE t = "destination" -> SeedDestinations
       [] t = "trip" -> SeedTrips
       [] t = "customer" -> SeedCustomers
       [] t = "meeting" -> SeedMeetings
       [] t = "booking" -> {}]

NoRequest ==
  [route |-> "none", kind |-> "none", res |-> "none", id |-> 0, body |-> EmptyBody, err |-> FALSE,
   changes |-> 0, calls |-> 0, status |-> 0, data |-> NoData]

NoneCreated == [res |-> "none", id |-> 0, body |-> EmptyBody]

\* Startup.  boot is the state of the open callback and of the statements
\* initializeDatabase and insertSampleData have issued on the handle:
\* pending are issued and not yet run, schema the tables that exist, failed
\* the statements that ended in an error, inits the calls of
\* initializeDatabase.

CreateTable(t) == [op |-> "create", table |-> t, rows |-> <<>>]

InsertInto(t, rows) == [op |-> "insert", table |-> t, rows |-> rows]

SeedRow(t, i) == CHOOSE x \in SeedDb[t] : x.idx = i

\* The db.run calls of initializeDatabase.
SchemaStatements == {CreateTable(t) : t \in Tables}

\* The db.run calls of insertSampleData.
SampleStatements ==
  { InsertInto("destination", <<SeedRow("destination", 1), SeedRow("destination", 2),
                                SeedRow("destination", 3)>>),
    InsertInto("trip", <<SeedRow("trip", 1)>>),
    InsertInto("trip", <<SeedRow("trip", 2)>>),
    InsertInto("customer", <<SeedRow("customer", 1)>>),
    InsertInto("meeting", <<SeedRow("meeting", 1)>>) }

\* The server once the startup statements have run in the order written.
Booted ==
  [phase |-> "running", isVercel |-> TRUE, pending |-> {}, schema |-> Tables, inits |-> 1,
   failed |-> {}]

Init ==
  /\ boot = Booted
  /\ db = SeedDb
  /\ seq = [t \in Tables |-> Cardinality(SeedDb[t])]
  /\ resp = NoRequest
  /\ nops = 0
  /\ lastCreated = NoneCreated
  /\ assigned = [t \in Tables |-> {x.idx : x \in SeedDb[t]}]
  /\ deleted = [t \in Tables |-> {}]

---------------------------------------------------------------------------
\* Handlers.  resp is the request being answered and its response, NoRequest
\* between two requests; q is the result of the one statement the handler
\* runs.

Response(route, kind, r, id, body, q, out) ==
  [route |-> route, kind |-> kind, res |-> r, id |-> id, body |-> body, err |-> q.err,
   changes |-> q.changes, calls |-> 1, status |-> out.status, data |-> out.data]

\* A route that runs a SELECT.
Read(route, kind, r, id, body, q, out) ==
  /\ resp = NoRequest
  /\ resp' = Response(route, kind, r, id, body, q, out)
  /\ UNCHANGED <<db, seq, nops, lastCreated, assigned, deleted, boot>>

\* A route that runs an INSERT, UPDATE or DELETE.
Write(route, kind, r, id, body, q, out) ==
  /\ resp = NoRequest
  /\ nops < MaxOps
  /\ nops' = IF q.db # db THEN nops + 1 ELSE nops
  /\ boot' = boot
  /\ db' = q.db
  /\ seq' = q.seq
  /\ resp' = Response(route, kind, r, id, body, q, out)
  /\ assigned' = IF kind = "create" /\ ~q.err THEN [assigned EXCEPT ![r] = @ \cup {q.lastID}] ELSE assigned
  /\ deleted' = IF kind = "delete" /\ ~q.err /\ q.changes > 0
                THEN [deleted EXCEPT ![r] = @ \cup {id}] ELSE deleted
  /\ lastCreated' = IF kind = "create" /\ ~q.err THEN [res |-> r, id |-> q.lastID, body |-> body]
                    ELSE IF q.db # db THEN NoneCreated ELSE lastCreated

\* app.get("/<r>s") of destinations, meetings and bookings
List(route, r) ==
  \E fail \in BOOLEAN :
    LET q == SelectAll(r, fail)
    IN Read(route, "list", r, 0, EmptyBody, q,
            handleResponse(q.err, q.msg, Arr(q.rows), 404, "Not found", NoChanges))

\* app.get("/<r>s/:id") of destinations, meetings and bookings
GetById(route, r, notFoundMessage) ==
  \E id \in RequestIds(r), fail \in BOOLEAN :
    LET q == SelectById(r, id, fail)
    IN Read(route, "get", r, id, EmptyBody, q,
            handleResponse(q.err, q.msg, RowOf(q), 404, notFoundMessage, NoChanges))

\* app.post("/<r>s")
Create(route, r, bodies, fields, message, notFoundMessage) ==
  \E body \in bodies, fail \in BOOLEAN :
    LET q == Insert(r, Params(body, fields), fail)
    IN Write(route, "create", r, 0, body, q,
             handleResponse(q.err, q.msg, Obj([message |-> message, id |-> q.lastID]),
                            500, notFoundMessage, NoChanges))

\* app.put("/<r>s/:id")
Put(route, r, bodies, fields, message, notFoundMessage) ==
  \E id \in RequestIds(r), body \in bodies, fail \in BOOLEAN :
    LET q == Update(r, id, Params(body, fields), fail)
    IN Write(route, "update", r, id, body, q,
             handleResponse(q.err, q.msg, Obj([message |-> message]), 404, notFoundMessage, q.changes))

\* app.delete("/<r>s/:id")
Remove(route, r, message, notFoundMessage) ==
  \E id \in RequestIds(r), fail \in BOOLEAN :
    LET q == Delete(r, id, fail)
    IN Write(route, "delete", r, id, EmptyBody, q,
             handleResponse(q.err, q.msg, Obj([message |-> message]), 404, notFoundMessage, q.changes))

---------------------------------------------------------------------------
\* DESTINATIONS CRUD

GetDestinations == List("GET /destinations", "destination")

GetDestination == GetById("GET /destinations/:id", "destination", "Destination not found")

PostDestination ==
  Create("POST /destinations", "destination", DestinationBodies, {"zone"},
         "Destination created successfully", "Failed to create destination")

PutDestination ==
  Put("PUT /destinations/:id", "destination", DestinationBodies, {"zone"},
      "Destination updated successfully", "Destination not found")

DeleteDestination ==
  Remove("DELETE /destinations/:id", "destination", "Destination deleted successfully",
         "Destination not found")

\* TRIPS CRUD

TripFields == {"name", "country", "destinationid", "coverimage", "detail", "price", "duration"}

GetTrips ==
  \E fail \in BOOLEAN :
    LET q == SelectTrips(fail)
    IN Read("GET /trips", "list", "trip", 0, EmptyBody, q,
            handleResponse(q.err, q.msg, Arr(q.rows), 404, "Not found", NoChanges))

GetTrip ==
  \E id \in RequestIds("trip"), fail \in BOOLEAN :
    LET q == SelectTripById(id, fail)
    IN Read("GET /trips/:id", "get", "trip", id, EmptyBody, q,
            handleResponse(q.err, q.msg, RowOf(q), 404, "Trip not found", NoChanges))

PostTrip ==
  Create("POST /trips", "trip", TripBodies, TripFields, "Trip created successfully",
         "Failed to create trip")

PutTrip ==
  Put("PUT /trips/:id", "trip", TripBodies, TripFields, "Trip updated successfully", "Trip not found")

DeleteTrip == Remove("DELETE /trips/:id", "trip", "Trip deleted successfully", "Trip not found")

\* CUSTOMERS CRUD

GetCustomers ==
  \E fail \in BOOLEAN :
    LET q == SelectAll("customer", fail)
    IN Read("GET /customers", "list", "customer", 0, EmptyBody, q,
            IF q.err
            THEN handleResponse(q.err, q.msg, NoData, 404, "Not found", NoChanges)
            ELSE handleResponse(FALSE, "", Arr({Sanitized(row) : row \in q.rows}), 404, "Not found",
                                NoChanges))

GetCustomer ==
  \E id \in RequestIds("customer"), fail \in BOOLEAN :
    LET q == SelectById("customer", id, fail)
    IN Read("GET /customers/:id", "get", "customer", id, EmptyBody, q,
            IF q.err
            THEN handleResponse(q.err, q.msg, NoData, 404, "Customer not found", NoChanges)
            ELSE IF ~Truthy(RowOf(q))
            THEN handleResponse(FALSE, "", NoData, 404, "Customer not found", NoChanges)
            ELSE handleResponse(FALSE, "", Obj(Sanitized(RowOf(q).o)), 404, "Not found", NoChanges))

PostCustomer ==
  Create("POST /customers", "customer", CustomerBodies,
         {"fullname", "phone", "email", "image", "password"},
         "Customer created successfully", "Failed to create customer")

\* Variant: the UPDATE also sets password = ? from the body.
PutCustomerWithPassword ==
  Put("PUT /customers/:id", "customer", CustomerBodies,
      {"fullname", "phone", "email", "image", "password"},
      "Customer updated successfully", "Customer not found")

PutCustomer ==
  Put("PUT /customers/:id", "customer", CustomerBodies, {"fullname", "phone", "email", "image"},
      "Customer updated successfully", "Customer not found")

DeleteCustomer ==
  Remove("DELETE /customers/:id", "customer", "Customer deleted successfully", "Customer not found")

\* app.post("/customers/login")
Login ==
  \E body \in LoginBodies, fail \in BOOLEAN :
    LET phone == Field(body, "phone")
        password == Field(body, "password")
        q == SelectLogin(phone, password, fail)
        row == RowOf(q)
    IN /\ resp = NoRequest
       /\ resp' =
            IF Falsy(phone) \/ Falsy(password)
            THEN [route |-> "POST /customers/login", kind |-> "login", res |-> "customer", id |-> 0,
                  body |-> body, err |-> FALSE, changes |-> 0, calls |-> 0, status |-> 400,
                  data |-> Obj([error |-> "Phone and password are required"])]
            ELSE Response("POST /customers/login", "login", "customer", 0, body, q,
                   IF q.err THEN [status |-> 500, data |-> Obj([error |-> q.msg])]
                   ELSE IF ~Truthy(row)
                   THEN [status |-> 401, data |-> Obj([error |-> "Invalid phone or password"])]
                   ELSE [status |-> 200,
                         data |-> Obj([message |-> "Login successful", customer |-> Sanitized(row.o)])])
       /\ UNCHANGED <<db, seq, nops, lastCreated, assigned, deleted, boot>>

\* MEETINGS CRUD

MeetingFields == {"detail", "meetingdatetime", "latitude", "longitude"}

GetMeetings == List("GET /meetings", "meeting")

GetMeeting == GetById("GET /meetings/:id", "meeting", "Meeting not found")

PostMeeting ==
  Create("POST /meetings", "meeting", MeetingBodies, MeetingFields, "Meeting created successfully",
         "Failed to create meeting")

PutMeeting ==
  Put("PUT /meetings/:id", "meeting", MeetingBodies, MeetingFields, "Meeting updated successfully",
      "Meeting not found")

DeleteMeeting ==
  Remove("DELETE /meetings/:id", "meeting", "Meeting deleted successfully", "Meeting not found")

\* BOOKINGS CRUD

BookingFields == {"customerid", "bookdatetime", "tripid", "meetingid"}

GetBookings == List("GET /bookings", "booking")

GetBooking == GetById("GET /bookings/:id", "booking", "Booking not found")

PostBooking ==
  Create("POST /bookings", "booking", BookingBodies, BookingFields, "Booking created successfully",
         "Failed to create booking")

PutBooking ==
  Put("PUT /bookings/:id", "booking", BookingBodies, BookingFields, "Booking updated successfully",
      "Booking not found")

DeleteBooking ==
  Remove("DELETE /bookings/:id", "booking", "Booking deleted successfully", "Booking not found")

---------------------------------------------------------------------------
\* res.json(...) ends the request: the response has left and the server is
\* waiting for the next request.
Sent ==
  /\ resp # NoRequest
  /\ resp' = NoRequest
  /\ UNCHANGED <<db, seq, nops, lastCreated, assigned, deleted, boot>>

Next ==
  \/ Sent
  \/ GetDestinations \/ GetDestination \/ PostDestination \/ PutDestination \/ DeleteDestination
  \/ GetTrips \/ GetTrip \/ PostTrip \/ PutTrip \/ DeleteTrip
  \/ GetCustomers \/ GetCustomer \/ PostCustomer \/ PutCustomer \/ DeleteCustomer \/ Login
  \/ GetMeetings \/ GetMeeting \/ PostMeeting \/ PutMeeting \/ DeleteMeeting
  \/ GetBookings \/ GetBooking \/ PostBooking \/ PutBooking \/ DeleteBooking

Spec == Init /\ [][Next]_vars

---------------------------------------------------------------------------
\* Startup of the process.

\* const isVercel = process.env.VERCEL === '1'; new sqlite3.Database(dbPath, ...)
InitBoot ==
  /\ boot \in {[phase |-> "opening", isVercel |-> v, pending |-> {}, schema |-> {}, inits |-> 0,
                failed |-> {}] : v \in BOOLEAN}
  /\ db = [t \in Tables |-> {}]
  /\ seq = [t \in Tables |-> 0]
  /\ resp = NoRequest
  /\ nops = 0
  /\ lastCreated = NoneCreated
  /\ assigned = [t \in Tables |-> {}]
  /\ deleted = [t \in Tables |-> {}]

\* The callback of new sqlite3.Database: on success with isVercel it calls
\* initializeDatabase, which issues every startup statement at once.
Open ==
  \E err \in BOOLEAN :
    /\ boot.phase = "opening"
    /\ boot' = IF ~err /\ boot.isVercel
               THEN [boot EXCEPT !.phase = "running", !.inits = @ + 1,
                                 !.pending = SchemaStatements \cup SampleStatements]
               ELSE [boot EXCEPT !.phase = "running"]
    /\ UNCHANGED <<db, seq, resp, nops, lastCreated, assigned, deleted>>

\* The handle runs an issued CREATE TABLE IF NOT EXISTS.  Statements issued
\* outside db.serialize() run in no fixed order.
RunCreate ==
  \E st \in boot.pending :
    /\ st.op = "create"
    /\ boot' = [boot EXCEPT !.pending = @ \ {st}, !.schema = @ \cup {st.table}]
    /\ UNCHANGED <<db, seq, resp, nops, lastCreated, assigned, deleted>>

\* The rows an INSERT ... VALUES (...), (...) adds, rowids in the order written.
Inserted(st) ==
  {[c \in DOMAIN st.rows[i] |-> IF c = "idx" THEN NextId(st.table) + i - 1 ELSE st.rows[i][c]] :
     i \in DOMAIN st.rows}

\* The handle runs an issued INSERT: an error when its table does not exist
\* yet (no callback is given, nothing retries it).
RunInsert ==
  \E st \in boot.pending :
    /\ st.op = "insert"
    /\ IF st.table \in boot.schema
       THEN /\ db' = [db EXCEPT ![st.table] = @ \cup Inserted(st)]
            /\ seq' = [seq EXCEPT ![st.table] = NextId(st.table) + Len(st.rows) - 1]
            /\ assigned' = [assigned EXCEPT ![st.table] = @ \cup {x.idx : x \in Inserted(st)}]
            /\ boot' = [boot EXCEPT !.pending = @ \ {st}]
       ELSE /\ boot' = [boot EXCEPT !.pending = @ \ {st}, !.failed = @ \cup {st}]
            /\ UNCHANGED <<db, seq, assigned>>
    /\ UNCHANGED <<resp, nops, lastCreated, deleted>>

NextBoot == Open \/ RunCreate \/ RunInsert

SpecBoot == InitBoot /\ [][NextBoot]_vars

---------------------------------------------------------------------------
\* Properties.

SeedIds(t) == {x.idx : x \in SeedDb[t]}

\* The fields of the response body, when it is an object.
IsObject(data) == data.k = "obj"

\* C1: a PUT or DELETE that matches no row (zero rows affected, no storage
\* error) is answered 404, never 200.
C1_NoRowIs404 ==
  (resp.kind \in {"update", "delete"} /\ ~resp.err /\ resp.changes = 0) => resp.status = 404

\* C2: when the statement of a request fails, the response is 500 with an
\* error field, after one statement and no other.
C2_StorageErrorIs500 ==
  resp.err =>
    /\ resp.status = 500
    /\ IsObject(resp.data)
    /\ DOMAIN resp.data.o = {"error"}
    /\ resp.calls = 1

C2_Witness ==
  /\ resp.err
  /\ resp.route = "GET /customers/:id"
  /\ resp.status = 500
  /\ nops > 0

\* The GET by id that follows a successful POST of the same resource, with
\* no change of the store in between and no storage error.
RoundTrip ==
  /\ resp.kind = "get"
  /\ ~resp.err
  /\ lastCreated.res = resp.res
  /\ lastCreated.id = resp.id

\* The fields a resource takes from a request body.
Writable(r) == ColSet(Columns(r))

\* C3 as stated: the GET after a POST returns 200 with a row whose fields
\* equal the submitted fields (each read in the form its column stores, an
\* absent field as null), the password left out for a customer.
C3_RoundTripEqualsBody ==
  RoundTrip =>
    /\ resp.status = 200
    /\ IsObject(resp.data)
    /\ \A f \in Writable(resp.res) \ {"password"} :
         /\ f \in DOMAIN resp.data.o
         /\ resp.data.o[f] = Store(resp.res, f, Field(lastCreated.body, f))
    /\ "password" \notin DOMAIN resp.data.o

\* C3 amended: the GET after a POST returns 200 with a row whose fields equal
\* the submitted fields (each in the form its column stores), except that a
\* customer comes without password and that a trip is found only when its
\* destinationid is the id of a destination (404 otherwise) and then carries
\* destination_zone in place of destinationid.
C3_RoundTripStoredForm ==
  RoundTrip =>
    LET r == resp.res
        body == lastCreated.body
        dest == {d \in db["destination"] :
                   Store("trip", "destinationid", Field(body, "destinationid")) = Num(d.idx)}
        hidden == IF r = "trip" THEN {"destinationid"}
                  ELSE IF r = "customer" THEN {"password"} ELSE {}
    IN IF r = "trip" /\ dest = {}
       THEN resp.status = 404
       ELSE /\ resp.status = 200
            /\ IsObject(resp.data)
            /\ resp.data.o.idx = resp.id
            /\ \A f \in Writable(r) \ hidden :
                 resp.data.o[f] = Store(r, f, Field(body, f))
            /\ \A f \in hidden : f \notin DOMAIN resp.data.o
            /\ r = "trip" => \E d \in dest : resp.data.o.destination_zone = d.zone

\* The GET of a trip just created with a destinationid no destination has.
C3_Witness ==
  /\ RoundTrip
  /\ resp.res = "trip"
  /\ resp.status = 404
  /\ \E t \in db["trip"] : t.idx = resp.id

\* A login field that is missing or empty.
Missing(v) == v \in {Undef, Null, Text(""), Num(0)}

\* The customer rows with the phone and the password of a login request.
Matching(body) ==
  {x \in db["customer"] :
     /\ x.phone = TextAff(Field(body, "phone"))
     /\ x.password = TextAff(Field(body, "password"))}

\* C4: login answers 400 without consulting the store when phone or password
\* is missing or empty, else 500 when the lookup fails, else 401 when no row
\* has that phone and that password, else 200 with the row minus password.
C4_LoginOutcome ==
  resp.kind = "login" =>
    IF Missing(Field(resp.body, "phone")) \/ Missing(Field(resp.body, "password"))
    THEN resp.status = 400 /\ resp.calls = 0
    ELSE IF resp.err THEN resp.status = 500 /\ DOMAIN resp.data.o = {"error"}
    ELSE IF Matching(resp.body) = {} THEN resp.status = 401
    ELSE /\ resp.status = 200
         /\ \E x \in Matching(resp.body) :
              resp.data.o.customer = [f \in DOMAIN x \ {"password"} |-> x[f]]

C4_Witness ==
  /\ resp.kind = "login"
  /\ resp.status = 200
  /\ resp.data.o.customer.idx \notin SeedIds("customer")

\* C5: no response of GET /customers, GET /customers/:id or login carries a
\* password field.
C5_NoPasswordInResponse ==
  (resp.res = "customer" /\ resp.kind \in {"list", "get", "login"}) =>
    /\ resp.data.k = "arr" => \A row \in resp.data.rows : "password" \notin DOMAIN row
    /\ resp.data.k = "obj" =>
         /\ "password" \notin DOMAIN resp.data.o
         /\ "customer" \in DOMAIN resp.data.o => "password" \notin DOMAIN resp.data.o.customer

C5_Witness ==
  /\ resp.route = "GET /customers"
  /\ resp.status = 200
  /\ Cardinality(resp.data.rows) = 2
  /\ \A x \in db["customer"] : x.password # Null

\* The trips whose destinationid is the id of a destination row.
TripsWithDestination ==
  {t \in db["trip"] : \E d \in db["destination"] : t.destinationid.t = "num" /\ t.destinationid.n = d.idx}

\* C6: GET /trips returns exactly the trips whose destinationid is the id of
\* an existing destination, once each.
C6_TripsListedIffDestination ==
  (resp.route = "GET /trips" /\ ~resp.err) =>
    /\ resp.status = 200
    /\ {row.idx : row \in resp.data.rows} = {t.idx : t \in TripsWithDestination}
    /\ Cardinality(resp.data.rows) = Cardinality(TripsWithDestination)

\* A trip created with destination d is stored but not listed after d was deleted.
C6_Witness ==
  /\ resp.route = "GET /trips"
  /\ resp.status = 200
  /\ \E t \in db["trip"] :
       /\ t.idx \notin SeedIds("trip")
       /\ t.destinationid.n \in deleted["destination"]
       /\ t.idx \notin {row.idx : row \in resp.data.rows}

\* C7: once a row was deleted, a GET by its id is answered 404 and the list
\* does not show it, as long as no row has that id again.
C7_DeletedStaysGone ==
  /\ (resp.kind = "get" /\ ~resp.err /\ resp.id \in deleted[resp.res] \ Ids(resp.res))
       => resp.status = 404
  /\ (resp.kind = "list" /\ ~resp.err)
       => \A row \in resp.data.rows : row.idx \notin deleted[resp.res] \ Ids(resp.res)

C7_Witness ==
  /\ resp.kind = "get"
  /\ resp.id \in deleted[resp.res]
  /\ resp.status = 404
  /\ db[resp.res] # {}

\* C8: a successful create returns the id of the one row it inserted, an id
\* never assigned in that table before; no two rows of a table share an id.
C8_FreshIds ==
  /\ [](\A t \in Tables : \A x, y \in db[t] : x.idx = y.idx => x = y)
  /\ [][(resp'.kind = "create" /\ resp'.status = 200) =>
          LET r == resp'.res
              i == resp'.data.o.id
          IN /\ i \notin assigned[r]
             /\ i \notin Ids(r)
             /\ \E x \in db'[r] :
                  /\ x.idx = i
                  /\ db'[r] = db[r] \cup {x}
                  /\ \A f \in Writable(r) : x[f] = Store(r, f, Field(resp'.body, f))]_vars

\* A create answered after the row with the largest id was deleted.
C8_Witness ==
  /\ resp.kind = "create"
  /\ resp.status = 200
  /\ resp.data.o.id - 1 \in deleted[resp.res]

\* The phone a customer request writes.
PhoneOf(body) == TextAff(Bind(Field(body, "phone")))

\* A POST /customers, or a PUT on an existing customer, whose phone is the
\* phone of another customer.
DuplicatePhone(rq) ==
  /\ rq.res = "customer"
  /\ rq.kind \in {"create", "update"}
  /\ rq.kind = "update" => rq.id \in Ids("customer")
  /\ \E x \in db["customer"] : x.idx # rq.id /\ x.phone = PhoneOf(rq.body)

\* C9: no two customers have the same phone; a POST or PUT that would give a
\* customer the phone of another one is answered 500 and changes no row.
C9_UniquePhone ==
  /\ [](\A x, y \in db["customer"] : x.phone = y.phone => x = y)
  /\ [][DuplicatePhone(resp') => resp'.status = 500 /\ db' = db]_vars

C9_Witness ==
  /\ resp.kind = "update"
  /\ DuplicatePhone(resp)
  /\ resp.status = 500
  /\ Cardinality(db["customer"]) = 2

\* C10: a DELETE of a destination, trip, customer or meeting removes the row
\* with that id from its table and changes no row of any other table.
C10_DeleteFrame ==
  [][(resp'.kind = "delete" /\ resp'.res # "booking") =>
       /\ \A t \in Tables \ {resp'.res} : db'[t] = db[t]
       /\ db'[resp'.res] \subseteq db[resp'.res]
       /\ \A x \in db[resp'.res] \ db'[resp'.res] : x.idx = resp'.id]_vars

\* A booking still references the customer that was just deleted.
C10_Witness ==
  /\ resp.route = "DELETE /customers/:id"
  /\ resp.changes = 1
  /\ \E b \in db["booking"] : b.customerid = Num(resp.id)

\* A POST or PUT of a trip or a booking.
ReferencingWrite(rq) == rq.kind \in {"create", "update"} /\ rq.res \in {"trip", "booking"}

\* A body that leaves a NOT NULL column of its table without a value.
LacksRequired(r, body) == \E c \in NotNullCols(r) : Store(r, c, Field(body, c)) = Null

\* C11: a create or update of a trip or booking has the same outcome whether
\* or not its foreign-key fields name existing rows: it fails only when the
\* store fails or a required column has no value, and otherwise is answered
\* 200 with the row stored with the submitted values.
C11_ReferencesUnchecked ==
  [][ReferencingWrite(resp') =>
       LET r == resp'.res
           body == resp'.body
       IN IF resp'.err
          THEN /\ resp'.status = 500
               /\ db' = db
               /\ resp'.data.o.error \in {"SQLITE_MISUSE: Database is closed",
                                          "SQLITE_CONSTRAINT: NOT NULL constraint failed"}
               /\ resp'.data.o.error = "SQLITE_CONSTRAINT: NOT NULL constraint failed"
                    => LacksRequired(r, body)
          ELSE /\ resp'.status = 200
               /\ resp'.kind = "create" =>
                    \E x \in db'[r] \ db[r] :
                      \A f \in ColSet(Columns(r)) : x[f] = Store(r, f, Field(body, f))
               /\ (resp'.kind = "update" /\ resp'.id \in Ids(r)) =>
                    \E x \in db'[r] :
                      /\ x.idx = resp'.id
                      /\ \A f \in ColSet(Columns(r)) : x[f] = Store(r, f, Field(body, f))]_vars

\* A booking was updated to reference a customer, a trip and no meeting that
\* do not exist.
C11_Witness ==
  /\ resp.route = "PUT /bookings/:id"
  /\ resp.status = 200
  /\ resp.changes = 1
  /\ \E b \in db["booking"] :
       /\ b.idx = resp.id
       /\ b.customerid = Num(9)
       /\ \A c \in db["customer"] : c.idx # 9

\* A row without its rowid.
Attributes(x) == [c \in DOMAIN x \ {"idx"} |-> x[c]]

\* C12: on a transient store initialization runs once and, in whatever order
\* the handle runs the startup statements, ends with the five tables holding
\* the seed dataset: destinations 1 Asia, 2 Europe, 3 America, the two trips,
\* one customer, one meeting and no booking.
C12_SeededOnce ==
  /\ boot.inits <= 1
  /\ (boot.phase = "running" /\ boot.inits = 1 /\ boot.pending = {}) =>
       /\ boot.schema = Tables
       /\ boot.failed = {}
       /\ db["destination"] = SeedDestinations
       /\ {Attributes(x) : x \in db["trip"]} = {Attributes(x) : x \in SeedTrips}
       /\ Cardinality(db["trip"]) = 2
       /\ db["customer"] = SeedCustomers
       /\ db["meeting"] = SeedMeetings
       /\ db["booking"] = {}

\* A PUT that was answered 200 and changed the row with its id.
SuccessfulPut(rq) == rq.kind = "update" /\ rq.status = 200 /\ rq.changes = 1

\* C13 as stated: after a successful PUT on an existing id every non-id
\* attribute of the row has the value of the request body, an absent one
\* being null.
C13_PutReplacesEveryAttribute ==
  [][SuccessfulPut(resp') =>
       \E x \in db'[resp'.res] :
         /\ x.idx = resp'.id
         /\ \A f \in ColSet(Columns(resp'.res)) :
              x[f] = Store(resp'.res, f, Field(resp'.body, f))]_vars

\* The attributes a PUT does not write.
KeptByPut(r) == IF r = "customer" THEN {"password"} ELSE {}

\* C13 amended: after a successful PUT on an existing id every non-id
\* attribute of the row has the value of the request body, an absent one
\* being null, except the password of a customer, which keeps its value.
C13_PutReplacesRow ==
  [][SuccessfulPut(resp') =>
       LET r == resp'.res
       IN \E x \in db'[r], old \in db[r] :
            /\ x.idx = resp'.id
            /\ old.idx = resp'.id
            /\ db'[r] = (db[r] \ {old}) \cup {x}
            /\ \A f \in ColSet(Columns(r)) \ KeptByPut(r) :
                 x[f] = Store(r, f, Field(resp'.body, f))
            /\ \A f \in KeptByPut(r) : x[f] = old[f]]_vars

\* A trip whose cover image and detail were set is updated with a body that
\* has neither.
C13_Witness ==
  /\ SuccessfulPut(resp)
  /\ resp.res = "trip"
  /\ resp.id \in SeedIds("trip")
  /\ \E x \in db["trip"] : x.idx = resp.id /\ x.coverimage = Null /\ x.detail = Null

\* The rows a list request returns when its statement succeeds.
Listed(r) ==
  IF r = "trip" THEN TripJoin
  ELSE IF r = "customer" THEN {[f \in DOMAIN x \ {"password"} |-> x[f]] : x \in db[r]}
  ELSE db[r]

\* C14: a list request whose statement succeeds is answered 200 with the
\* rows, the empty sequence included, never with the not-found status.
C14_ListIs200 ==
  (resp.kind = "list" /\ ~resp.err) =>
    /\ resp.status = 200
    /\ resp.data.k = "arr"
    /\ resp.data.rows = Listed(resp.res)

\* Trips are stored but the join yields no row.
C14_Witness ==
  /\ resp.route = "GET /trips"
  /\ resp.status = 200
  /\ resp.data.rows = {}
  /\ db["trip"] # {}

\* C15: a customer row keeps the password it was created with, whatever
\* requests follow, so a login with a customer's current phone and that
\* password is answered 200.
C15_PasswordKept ==
  /\ [][\A x \in db'["customer"] :
          \/ \E old \in db["customer"] : old.idx = x.idx /\ old.password = x.password
          \/ /\ x.idx \notin Ids("customer")
             /\ resp'.route = "POST /customers"
             /\ x.password = TextAff(Bind(Field(resp'.body, "password")))]_vars
  /\ []((/\ resp.kind = "login"
         /\ ~resp.err
         /\ ~Missing(Field(resp.body, "phone"))
         /\ ~Missing(Field(resp.body, "password"))
         /\ Matching(resp.body) # {})
        => resp.status = 200)

\* The seeded customer logs in with a phone set by a PUT and the seeded password.
C15_Witness ==
  /\ resp.kind = "login"
  /\ resp.status = 200
  /\ resp.data.o.customer.idx = 1
  /\ resp.data.o.customer.phone # Text("+1234567890")
  /\ Field(resp.body, "password") = Text("password123")

====
